---- MODULE Spec2Model ----
(***************************************************************************)
(* benchmark_device_sync_fix.py: a load generator that sends warmup calls, *)
(* sequential timed calls and then a concurrent batch through a            *)
(* ThreadPoolExecutor, and summarises the batch (mean, median, P99,        *)
(* throughput).                                                            *)
(*                                                                         *)
(* Threads: the main thread (pc) and the pool's worker threads (w).  Each  *)
(* action is one stretch of one thread's code between two points where it  *)
(* blocks or lets go of a lock another thread takes (the HTTP POST, the    *)
(* work queue, a future's condition, the idle semaphore, as_completed,     *)
(* join).  Rational results (mean, median, throughputs) are kept as        *)
(* fractions [num, den].                                                   *)
(***************************************************************************)
EXTENDS Integers, Sequences, FiniteSets

\* ------------------------------------------------------------ bounds
MaxWorkers == 2
MaxRequests == 2
MaxTokens == 2
\* workers * requests of the runs of Spec
MaxLoad == 4
\* the endpoints of TimedSpec and SlowSpec
MaxFixedDelay == 2
TimedMaxWorkers == 5
TimedMaxRequests == 5
\* the batches of StatsSpec
MaxSmallBatch == 8
MaxSamples == 102
MaxStride == 3
MaxModulus == 5
MaxExhaustive == 3
MaxLatency == 3

\* ------------------------------------------------------------ program constants
Warmups == 5
SingleRuns == 5
WarmupPromptTokens == 10
WarmupMaxTokens == 20
PromptTokens == 50
MaxTokensArg == 100

VARIABLES
  workers,           \* args.workers
  num_requests,      \* args.requests
  endpoint,          \* the server: [real, fixed, D, T], see the endpoint section
  now,               \* the clock time.perf_counter() reads
  pc,                \* where the main thread is
  iter,              \* loop counter of the warmup and the single-request loops
  mstart,            \* send_request's `start` in the main thread
  single_latencies,  \* main's list
  sent,              \* every POST issued so far, in order: [prompt_tokens, max_tokens]
  queue,             \* executor._work_queue: indices into futures
  futures,           \* benchmark_concurrent's list of futures, in submission order
  w,                 \* the pool's threads: [st, req, start]
  nthreads,          \* len(executor._threads)
  submitting,        \* the future of the executor.submit call main is inside, if any
  idle_sem,          \* executor._idle_semaphore
  start,             \* benchmark_concurrent's `start`
  total_time,        \* benchmark_concurrent's `total_time`
  yielded,           \* futures as_completed has yielded
  results,           \* benchmark_concurrent's `results`, in completion order
  summary,           \* the dict benchmark_concurrent returns, once it has
  bad,               \* history: responses received that were a network failure or an unusable body
  got_non2xx         \* history: some response received had a non-2xx status

vars == <<workers, num_requests, endpoint, now, pc, iter, mstart, single_latencies, sent,
          queue, futures, submitting, w, nthreads, idle_sem, start, total_time, yielded,
          results, summary, bad, got_non2xx>>

Threads == 1..(IF MaxWorkers > TimedMaxWorkers THEN MaxWorkers ELSE TimedMaxWorkers)

\* ------------------------------------------------------------ the endpoint
\* Three servers.  The free one answers any call at any point with anything, and the
\* clock is logical.  The fixed-delay one answers every call after exactly D with T
\* tokens.  The slow one answers every call after a delay of its choosing in 1..D with
\* a token count of its choosing.  Against the last two time is real.
AnyEndpoint == [real |-> FALSE, fixed |-> FALSE, D |-> 0, T |-> 0]
FixedEndpoint(d, t) == [real |-> TRUE, fixed |-> TRUE, D |-> d, T |-> t]
SlowEndpoint(d) == [real |-> TRUE, fixed |-> FALSE, D |-> d, T |-> 0]

OkResponse(t) == [net |-> TRUE, status |-> 200, body |-> "usage", tokens |-> t]

\* What requests.post can come back with: a connection failure (it raises), or a
\* response with a status and a body that is not JSON, JSON without
\* usage.completion_tokens, or JSON with it.
Responses ==
  {[net |-> FALSE, status |-> 0, body |-> "none", tokens |-> 0]}
  \cup {[net |-> TRUE, status |-> s, body |-> b, tokens |-> 0] :
          s \in {200, 500}, b \in {"notjson", "nousage"}}
  \cup {[net |-> TRUE, status |-> s, body |-> "usage", tokens |-> t] :
          s \in {200, 500}, t \in 1..MaxTokens}

\* The responses that may arrive now for a POST sent at t0.
Replies(t0) ==
  IF endpoint.fixed
  THEN IF now = t0 + endpoint.D THEN {OkResponse(endpoint.T)} ELSE {}
  ELSE IF endpoint.real
  THEN IF t0 < now /\ now <= t0 + endpoint.D
       THEN {OkResponse(t) : t \in 1..MaxTokens} ELSE {}
  ELSE Responses

\* What one time.perf_counter() call adds to the clock.  Against the free endpoint the
\* clock is logical: every read returns a strictly larger value.  Against the other two
\* time is real and the code itself takes none (no scheduling overhead).
Cost == IF endpoint.real THEN 0 ELSE 1

\* ------------------------------------------------------------ send_request
\* (a variant that warms up with the configured sizes)
WarmupPayloadConfigured == [prompt_tokens |-> 50, max_tokens |-> 100]
WarmupPayload == [prompt_tokens |-> WarmupPromptTokens, max_tokens |-> WarmupMaxTokens]
ArgsPayload == [prompt_tokens |-> PromptTokens, max_tokens |-> MaxTokensArg]

\* send_request from the return of requests.post on: post raised (no second clock
\* read), or elapsed is taken and resp.json() / result['usage']['completion_tokens']
\* raise or give the token count.  The status code is never looked at.  `reads` is
\* the number of perf_counter calls made.
\* (a variant that reads a missing token count as 0:
\* result.get('usage', {}).get('completion_tokens', 0) on whatever body came)
send_request_lenient(t0, resp) ==
  IF ~resp.net
  THEN [ok |-> FALSE, elapsed |-> 0, tokens |-> 0, reads |-> 0]
  ELSE [ok |-> TRUE, elapsed |-> now - t0, tokens |-> resp.tokens, reads |-> 1]

send_request(t0, resp) ==
  IF ~resp.net
  THEN [ok |-> FALSE, elapsed |-> 0, tokens |-> 0, reads |-> 0]
  ELSE IF resp.body # "usage"
  THEN [ok |-> FALSE, elapsed |-> now - t0, tokens |-> 0, reads |-> 1]
  ELSE [ok |-> TRUE, elapsed |-> now - t0, tokens |-> resp.tokens, reads |-> 1]

Unusable(resp) == ~resp.net \/ resp.body # "usage"
Non2xx(resp) == resp.net /\ resp.status # 200

\* ------------------------------------------------------------ statistics
\* sum(): the sum of s[lo..hi], halving the range
RECURSIVE SumRange(_, _, _)
SumRange(s, lo, hi) ==
  IF lo > hi THEN 0
  ELSE IF lo = hi THEN s[lo]
  ELSE LET mid == (lo + hi) \div 2
       IN SumRange(s, lo, mid) + SumRange(s, mid + 1, hi)

SumSeq(s) == SumRange(s, 1, Len(s))

\* (a variant: sorted(..., reverse=True))
sorted_descending(s) ==
  [i \in 1..Len(s) |->
     CHOOSE v \in {s[j] : j \in 1..Len(s)} :
       /\ Cardinality({j \in 1..Len(s) : s[j] > v}) < i
       /\ Cardinality({j \in 1..Len(s) : s[j] >= v}) >= i]

\* sorted(): the ascending arrangement; position i holds the value with fewer than i
\* elements below it and at least i elements not above it
sorted(s) ==
  [i \in 1..Len(s) |->
     CHOOSE v \in {s[j] : j \in 1..Len(s)} :
       /\ Cardinality({j \in 1..Len(s) : s[j] < v}) < i
       /\ Cardinality({j \in 1..Len(s) : s[j] <= v}) >= i]

Frac(n, d) == [num |-> n, den |-> d]

\* statistics.mean
mean(data) == Frac(SumSeq(data), Len(data))

\* statistics.median: the middle element, or the mean of the two middle ones
median(data) ==
  LET s == sorted(data)
      n == Len(data)
  IN IF n % 2 = 1 THEN Frac(s[(n \div 2) + 1], 1)
     ELSE Frac(s[n \div 2] + s[(n \div 2) + 1], 2)

\* int(0.99 * n): the float product truncated.  For every n below 200000 this is
\* floor(99 n / 100).
\* (a variant that takes the last element)
P99IndexLast(n) == n - 1
P99Index(n) == (99 * n) \div 100

Latencies(rs) == [i \in 1..Len(rs) |-> rs[i][1]]
TokenCounts(rs) == [i \in 1..Len(rs) |-> rs[i][2]]

\* (a variant that sums r[0] instead of r[1])
SumElapsed(rs) == SumSeq(Latencies(rs))
SumTokens(rs) == SumSeq(TokenCounts(rs))

NoSummary == [present |-> FALSE]

\* lines 52-62
Report(rs, n, span) ==
  [present |-> TRUE,
   total_time |-> span,
   avg_latency |-> mean(Latencies(rs)),
   p50_latency |-> median(Latencies(rs)),
   p99_latency |-> sorted(Latencies(rs))[P99Index(Len(rs)) + 1],
   throughput_req_s |-> Frac(n, span),
   throughput_tok_s |-> Frac(SumTokens(rs), span),
   total_tokens |-> SumTokens(rs)]

\* ------------------------------------------------------------ initial states
\* A pool thread: not started, blocked in work_queue.get ("idle"), holding an item it
\* has just got ("got"), with its future set running ("running"), inside requests.post
\* ("busy"), or with its future finished and the idle semaphore not yet released
\* ("releasing").
IdleWorker == [st |-> "idle", req |-> 0, start |-> 0]
NoWorker == [st |-> "none", req |-> 0, start |-> 0]
PendingFuture == [st |-> "pending", ok |-> FALSE, elapsed |-> 0, tokens |-> 0]
NoFuture == [st |-> "none", ok |-> FALSE, elapsed |-> 0, tokens |-> 0]

Start(wk, n, ep) ==
  /\ workers = wk
  /\ num_requests = n
  /\ endpoint = ep
  /\ now = 0
  /\ pc = "warmup"
  /\ iter = 0
  /\ mstart = 0
  /\ single_latencies = <<>>
  /\ sent = <<>>
  /\ queue = <<>>
  /\ futures = <<>>
  /\ submitting = NoFuture
  /\ w = [k \in Threads |-> NoWorker]
  /\ nthreads = 0
  /\ idle_sem = 0
  /\ start = 0
  /\ total_time = 0
  /\ yielded = {}
  /\ results = <<>>
  /\ summary = NoSummary
  /\ bad = 0
  /\ got_non2xx = FALSE

\* The command lines explored: --workers and --requests up to their bounds, with
\* workers * requests at most MaxLoad.
Init ==
  \E wk \in 0..MaxWorkers, n \in 0..MaxRequests :
    wk * n <= MaxLoad /\ Start(wk, n, AnyEndpoint)

\* ------------------------------------------------------------ main thread
InFlightMain == IF pc \in {"warmup_post", "single_post"} THEN 1 ELSE 0
Busy == {k \in Threads : w[k].st = "busy"}
InFlight == InFlightMain + Cardinality(Busy)

batch == <<queue, futures, submitting, w, nthreads, idle_sem, start, total_time, yielded,
           results, summary>>
args == <<workers, num_requests, endpoint>>

\* The i-th future created: one of the list, or the one executor.submit has not
\* returned yet.
Fut(i) == IF i <= Len(futures) THEN futures[i] ELSE submitting

\* lines 85-86 and 91-92: the loop's next call, up to requests.post
MainCall ==
  /\ pc \in {"warmup", "single"}
  /\ mstart' = now
  /\ now' = now + Cost
  /\ sent' = Append(sent, IF pc = "warmup" THEN WarmupPayload ELSE ArgsPayload)
  /\ pc' = IF pc = "warmup" THEN "warmup_post" ELSE "single_post"
  /\ UNCHANGED <<args, iter, single_latencies, batch, bad, got_non2xx>>

\* lines 85-86: a warmup call returns or raises; its result is dropped
WarmupReturn(resp) ==
  /\ pc = "warmup_post"
  /\ resp \in Replies(mstart)
  /\ LET r == send_request(mstart, resp)
     IN /\ now' = now + r.reads * Cost
        /\ IF ~r.ok THEN pc' = "crashed" /\ iter' = iter
           ELSE IF iter + 1 < Warmups THEN pc' = "warmup" /\ iter' = iter + 1
           ELSE pc' = "single" /\ iter' = 0
  /\ bad' = bad + (IF Unusable(resp) THEN 1 ELSE 0)
  /\ got_non2xx' = (got_non2xx \/ Non2xx(resp))
  /\ UNCHANGED <<args, mstart, single_latencies, sent, batch>>

\* lines 91-95: a timed call returns or raises; its latency is appended
SingleReturn(resp) ==
  /\ pc = "single_post"
  /\ resp \in Replies(mstart)
  /\ LET r == send_request(mstart, resp)
     IN /\ now' = now + r.reads * Cost
        /\ IF ~r.ok
           THEN pc' = "crashed" /\ iter' = iter /\ single_latencies' = single_latencies
           ELSE /\ single_latencies' = Append(single_latencies, r.elapsed)
                /\ IF iter + 1 < SingleRuns THEN pc' = "single" /\ iter' = iter + 1
                   ELSE pc' = "pool" /\ iter' = 0
  /\ bad' = bad + (IF Unusable(resp) THEN 1 ELSE 0)
  /\ got_non2xx' = (got_non2xx \/ Non2xx(resp))
  /\ UNCHANGED <<args, mstart, sent, batch>>

\* line 43: ThreadPoolExecutor(max_workers=workers) raises ValueError unless workers > 0
PoolCreate ==
  /\ pc = "pool"
  /\ pc' = IF workers <= 0 THEN "crashed"
           ELSE IF num_requests = 0 THEN "timer" ELSE "submit"
  /\ UNCHANGED <<args, now, iter, mstart, single_latencies, sent, batch, bad, got_non2xx>>

\* lines 44-47, executor.submit up to _work_queue.put: a new future, its work item
\* queued.  The future is not in the list yet.
SubmitPut ==
  /\ pc = "submit"
  /\ submitting' = PendingFuture
  /\ queue' = Append(queue, Len(futures) + 1)
  /\ pc' = "adjust"
  /\ UNCHANGED <<args, now, iter, mstart, single_latencies, sent, futures, w, nthreads,
                 idle_sem, start, total_time, yielded, results, summary, bad, got_non2xx>>

\* (variants: a pool that ignores max_workers, and a pool of one thread)
MaySpawnLeak == nthreads < Cardinality(Threads)
MaySpawnOne == nthreads < 1

\* _adjust_thread_count's test for starting one more thread
MaySpawn == nthreads < workers

\* lines 44-47, executor.submit in _adjust_thread_count: an idle token is claimed, or a
\* thread is started (Thread.start returns when the thread runs; it is not in
\* executor._threads yet), or neither.  Without a thread started submit returns and
\* the future joins the list.
SubmitAdjust ==
  /\ pc = "adjust"
  /\ IF idle_sem = 0 /\ MaySpawn
     THEN /\ w' = [w EXCEPT ![nthreads + 1] = IdleWorker]
          /\ pc' = "started"
          /\ UNCHANGED <<idle_sem, futures, submitting>>
     ELSE /\ idle_sem' = IF idle_sem > 0 THEN idle_sem - 1 ELSE idle_sem
          /\ futures' = Append(futures, submitting)
          /\ submitting' = NoFuture
          /\ pc' = IF Len(futures) + 1 < num_requests THEN "submit" ELSE "timer"
          /\ w' = w
  /\ UNCHANGED <<args, now, iter, mstart, single_latencies, sent, queue, nthreads, start,
                 total_time, yielded, results, summary, bad, got_non2xx>>

\* lines 44-47, the rest of executor.submit after Thread.start: the thread is added to
\* executor._threads, submit returns and the future joins the list
SubmitReturn ==
  /\ pc = "started"
  /\ nthreads' = nthreads + 1
  /\ futures' = Append(futures, submitting)
  /\ submitting' = NoFuture
  /\ pc' = IF Len(futures) + 1 < num_requests THEN "submit" ELSE "timer"
  /\ UNCHANGED <<args, now, iter, mstart, single_latencies, sent, queue, w, idle_sem, start,
                 total_time, yielded, results, summary, bad, got_non2xx>>

\* line 48
TimerStart ==
  /\ pc = "timer"
  /\ start' = now
  /\ now' = now + Cost
  /\ pc' = "collect"
  /\ UNCHANGED <<args, iter, mstart, single_latencies, sent, queue, futures, submitting, w,
                 nthreads, idle_sem, total_time, yielded, results, summary, bad, got_non2xx>>

Finished == {i \in 1..Len(futures) : futures[i].st = "finished"}

\* line 49: as_completed yields a finished future it has not yielded yet, and
\* f.result() gives its result or raises its exception
Collect(i) ==
  /\ pc = "collect"
  /\ i \in Finished \ yielded
  /\ yielded' = yielded \cup {i}
  /\ IF futures[i].ok
     THEN /\ results' = Append(results, <<futures[i].elapsed, futures[i].tokens>>)
          /\ pc' = pc
     ELSE /\ results' = results
          /\ pc' = "unwind"
  /\ UNCHANGED <<args, now, iter, mstart, single_latencies, sent, queue, futures, submitting,
                 w, nthreads, idle_sem, start, total_time, summary, bad, got_non2xx>>

\* (a variant that does not block: it ends when no finished future is left to yield)
ExhaustedEarly == Finished \subseteq yielded

\* as_completed is exhausted: every future has been yielded
Exhausted == yielded = 1..Len(futures)

\* line 50: the loop has ended and the timer is stopped; the with block is left
TimerStop ==
  /\ pc = "collect"
  /\ Exhausted
  /\ total_time' = now - start
  /\ now' = now + Cost
  /\ pc' = "shutdown"
  /\ UNCHANGED <<args, iter, mstart, single_latencies, sent, queue, futures, submitting, w,
                 nthreads, idle_sem, start, yielded, results, summary, bad, got_non2xx>>

\* (a variant: shutdown(wait=False))
JoinedNoWait == TRUE

\* executor.shutdown(wait=True) has joined every thread: no work item is queued, and no
\* thread holds one or is short of releasing the idle semaphore
Joined == queue = <<>> /\ \A k \in Threads : w[k].st \in {"none", "idle"}

\* lines 43 and 52-62: the pool's shutdown has joined its threads, and the summary is
\* made.  statistics.mean raises on no data, the divisions on a zero span.
Summarize ==
  /\ pc = "shutdown"
  /\ Joined
  /\ IF Len(results) = 0 \/ total_time = 0
     THEN pc' = "crashed" /\ summary' = summary
     ELSE pc' = "done" /\ summary' = Report(results, num_requests, total_time)
  /\ UNCHANGED <<args, now, iter, mstart, single_latencies, sent, queue, futures, submitting,
                 w, nthreads, idle_sem, start, total_time, yielded, results, bad, got_non2xx>>

\* line 43, the with block left by an exception: __exit__ shuts the pool down, waiting
\* for its threads, and then the exception goes on up
Unwind ==
  /\ pc = "unwind"
  /\ Joined
  /\ pc' = "crashed"
  /\ UNCHANGED <<args, now, iter, mstart, single_latencies, sent, batch, bad, got_non2xx>>

\* ------------------------------------------------------------ pool threads
\* Idle threads are interchangeable: the one that gets the item is the first of them.
Taker == CHOOSE k \in Threads : w[k].st = "idle" /\ \A j \in Threads : w[j].st = "idle" => k <= j

\* _worker: work_queue.get returns the oldest item to a thread blocked in it
WorkerGet ==
  /\ queue # <<>>
  /\ \E k \in Threads : w[k].st = "idle"
  /\ w' = [w EXCEPT ![Taker] = [st |-> "got", req |-> Head(queue), start |-> 0]]
  /\ queue' = Tail(queue)
  /\ UNCHANGED <<args, now, pc, iter, mstart, single_latencies, sent, futures, submitting,
                 nthreads, idle_sem, start, total_time, yielded, results, summary, bad,
                 got_non2xx>>

\* work_item.run(): future.set_running_or_notify_cancel()
WorkerRun(k) ==
  /\ w[k].st = "got"
  /\ w' = [w EXCEPT ![k].st = "running"]
  /\ IF w[k].req <= Len(futures)
     THEN /\ futures' = [futures EXCEPT ![w[k].req].st = "running"]
          /\ submitting' = submitting
     ELSE /\ submitting' = [submitting EXCEPT !.st = "running"]
          /\ futures' = futures
  /\ UNCHANGED <<args, now, pc, iter, mstart, single_latencies, sent, queue, nthreads,
                 idle_sem, start, total_time, yielded, results, summary, bad, got_non2xx>>

\* work_item.run(): send_request lines 27-35, up to requests.post
WorkerSend(k) ==
  /\ w[k].st = "running"
  /\ w' = [w EXCEPT ![k].st = "busy", ![k].start = now]
  /\ now' = now + Cost
  /\ sent' = Append(sent, ArgsPayload)
  /\ UNCHANGED <<args, pc, iter, mstart, single_latencies, queue, futures, submitting,
                 nthreads, idle_sem, start, total_time, yielded, results, summary, bad,
                 got_non2xx>>

\* work_item.run(): send_request returns or raises (lines 35-39), and the future gets
\* the result or the exception
WorkerReturn(k, resp) ==
  /\ w[k].st = "busy"
  /\ resp \in Replies(w[k].start)
  /\ LET r == send_request(w[k].start, resp)
         f == [st |-> "finished", ok |-> r.ok,
               elapsed |-> IF r.ok THEN r.elapsed ELSE 0, tokens |-> r.tokens]
     IN /\ now' = now + r.reads * Cost
        /\ IF w[k].req <= Len(futures)
           THEN futures' = [futures EXCEPT ![w[k].req] = f] /\ submitting' = submitting
           ELSE submitting' = f /\ futures' = futures
  /\ w' = [w EXCEPT ![k].st = "releasing"]
  /\ bad' = bad + (IF Unusable(resp) THEN 1 ELSE 0)
  /\ got_non2xx' = (got_non2xx \/ Non2xx(resp))
  /\ UNCHANGED <<args, pc, iter, mstart, single_latencies, sent, queue, nthreads, idle_sem,
                 start, total_time, yielded, results, summary>>

\* _worker: the item done, the thread releases the idle semaphore and goes back to
\* work_queue.get
WorkerRelease(k) ==
  /\ w[k].st = "releasing"
  /\ w' = [w EXCEPT ![k] = IdleWorker]
  /\ idle_sem' = idle_sem + 1
  /\ UNCHANGED <<args, now, pc, iter, mstart, single_latencies, sent, queue, futures,
                 submitting, nthreads, start, total_time, yielded, results, summary, bad,
                 got_non2xx>>

\* ------------------------------------------------------------ specifications
Next ==
  \/ MainCall
  \/ \E resp \in Responses : WarmupReturn(resp)
  \/ \E resp \in Responses : SingleReturn(resp)
  \/ PoolCreate
  \/ SubmitPut
  \/ SubmitAdjust
  \/ SubmitReturn
  \/ TimerStart
  \/ \E i \in 1..MaxRequests : Collect(i)
  \/ TimerStop
  \/ Summarize
  \/ Unwind
  \/ WorkerGet
  \/ \E k \in Threads : WorkerRun(k)
  \/ \E k \in Threads : WorkerSend(k)
  \/ \E k \in Threads, resp \in Responses : WorkerReturn(k, resp)
  \/ \E k \in Threads : WorkerRelease(k)

Spec == Init /\ [][Next]_vars

\* Every thread that can run does, and every request in flight is answered: a run that
\* can take a step takes one.
FairSpec == Spec /\ WF_vars(Next)

\* ------------------------------------------------------------ the fixed-delay endpoint
\* A mocked endpoint that answers every call after exactly D with T tokens.  The code
\* takes no time; time passes only while every thread is blocked.
TimedInit ==
  \E wk \in 0..TimedMaxWorkers, n \in 0..TimedMaxRequests,
     d \in 1..MaxFixedDelay, t \in 1..MaxTokens :
       Start(wk, n, FixedEndpoint(d, t))

\* The main thread, and some pool thread, has code to run (it is not blocked).
MainRunnable ==
  \/ pc \in {"warmup", "single", "pool", "submit", "adjust", "started", "timer"}
  \/ pc = "collect" /\ (Finished \ yielded # {} \/ Exhausted)
  \/ pc \in {"shutdown", "unwind"} /\ Joined

WorkerRunnable ==
  \/ queue # <<>> /\ \E k \in Threads : w[k].st = "idle"
  \/ \E k \in Threads : w[k].st \in {"got", "running", "releasing"}

\* The POSTs in flight, by the time they were sent at, and whether one of them has
\* reached the delay at which the endpoint answers at the latest.
SentAt ==
  (IF InFlightMain = 1 THEN {mstart} ELSE {}) \cup {w[k].start : k \in Busy}
ReplyDue == \E t0 \in SentAt : now >= t0 + endpoint.D

\* Time passes while every thread is blocked and no answer is due.
Tick ==
  /\ endpoint.real
  /\ InFlight > 0
  /\ ~MainRunnable
  /\ ~WorkerRunnable
  /\ ~ReplyDue
  /\ now' = now + 1
  /\ UNCHANGED <<args, pc, iter, mstart, single_latencies, sent, batch, bad, got_non2xx>>

TimedNext ==
  \/ MainCall
  \/ \E t \in 1..MaxTokens : WarmupReturn(OkResponse(t))
  \/ \E t \in 1..MaxTokens : SingleReturn(OkResponse(t))
  \/ PoolCreate
  \/ SubmitPut
  \/ SubmitAdjust
  \/ SubmitReturn
  \/ TimerStart
  \/ \E i \in 1..TimedMaxRequests : Collect(i)
  \/ TimerStop
  \/ Summarize
  \/ WorkerGet
  \/ \E k \in Threads : WorkerRun(k)
  \/ \E k \in Threads : WorkerSend(k)
  \/ \E k \in Threads, t \in 1..MaxTokens : WorkerReturn(k, OkResponse(t))
  \/ \E k \in Threads : WorkerRelease(k)
  \/ Tick

TimedSpec == TimedInit /\ [][TimedNext]_vars

\* ------------------------------------------------------------ the slow endpoint
\* The same runs against an endpoint that answers after 1..D, as it likes.
SlowInit ==
  \E wk \in 0..MaxWorkers, n \in 0..MaxRequests, d \in 1..MaxFixedDelay :
    wk * n <= MaxLoad /\ Start(wk, n, SlowEndpoint(d))

SlowSpec == SlowInit /\ [][TimedNext]_vars

\* ------------------------------------------------------------ the summary alone
\* Batches as they stand when as_completed is exhausted, for sizes the interleaved
\* runs above cannot reach: the small sizes, and the ones around 100, where
\* int(0.99 * n) leaves n - 1.  Latencies run through 1..m in a pattern set by a.
BatchSizes == (1..MaxSmallBatch) \cup {n \in 1..MaxSamples : n + 3 > MaxSamples}

\* With o = 1 one sample in the middle is an outlier above all the others.
SampleBatch(n, a, m, o) ==
  [i \in 1..n |->
     <<((a * i * i + i) % m) + 1 + (IF o = 1 /\ i = (n \div 2) + 1 THEN m ELSE 0),
       (i % MaxTokens) + 1>>]

\* The state of a run on one worker against the slow endpoint when as_completed is
\* exhausted: each of the 10 sequential calls was answered after 1, and the requests
\* of the batch, run one after the other, after the latencies of rs.
Collected(n, rs) ==
  /\ workers = 1
  /\ num_requests = n
  /\ endpoint = SlowEndpoint(CHOOSE d \in {rs[i][1] : i \in 1..n} :
                                \A i \in 1..n : rs[i][1] <= d)
  /\ now = Warmups + SingleRuns + SumSeq(Latencies(rs))
  /\ pc = "collect"
  /\ iter = 0
  /\ mstart = Warmups + SingleRuns - 1
  /\ single_latencies = [i \in 1..SingleRuns |-> 1]
  /\ sent = [i \in 1..(Warmups + SingleRuns + n) |->
               IF i <= Warmups THEN WarmupPayload ELSE ArgsPayload]
  /\ queue = <<>>
  /\ futures = [i \in 1..n |->
                  [st |-> "finished", ok |-> TRUE,
                   elapsed |-> rs[i][1], tokens |-> rs[i][2]]]
  /\ submitting = NoFuture
  /\ w = [k \in Threads |-> IF k = 1 THEN IdleWorker ELSE NoWorker]
  /\ nthreads = 1
  /\ idle_sem = n
  /\ start = Warmups + SingleRuns
  /\ total_time = 0
  /\ yielded = 1..n
  /\ results = rs
  /\ summary = NoSummary
  /\ bad = 0
  /\ got_non2xx = FALSE

\* Every batch of up to MaxExhaustive samples with latencies in 1..MaxLatency.
SmallBatches ==
  UNION {{[i \in 1..n |-> <<l[i], (i % MaxTokens) + 1>>] : l \in [1..n -> 1..MaxLatency]} :
           n \in 1..MaxExhaustive}

StatsInit ==
  \/ \E n \in BatchSizes, a \in 0..MaxStride, m \in 1..MaxModulus, o \in {0, 1} :
       Collected(n, SampleBatch(n, a, m, o))
  \/ \E rs \in SmallBatches : Collected(Len(rs), rs)

StatsNext == TimerStop \/ Summarize

StatsSpec == StatsInit /\ [][StatsNext]_vars

\* ------------------------------------------------------------ properties
Count(seq, x) == Cardinality({i \in 1..Len(seq) : seq[i] = x})
FutureSample(i) == <<futures[i].elapsed, futures[i].tokens>>
FutureSamples == [i \in 1..Len(futures) |-> FutureSample(i)]
NFut == Len(futures) + (IF submitting.st = "none" THEN 0 ELSE 1)
Running == {i \in 1..NFut : Fut(i).st = "running"}
Holding == {k \in Threads : w[k].st \in {"got", "running", "busy", "releasing"}}
Posted == {i \in 1..NFut : Fut(i).st = "finished"} \cup {w[k].req : k \in Busy}
Terminated == pc \in {"done", "crashed"}
Sequential == pc \in {"warmup", "warmup_post", "single", "single_post"}
TimerNotStarted == Sequential \/ pc \in {"pool", "submit", "adjust", "started", "timer"}
FracEq(a, b) == a.num * b.den = b.num * a.den

\* C1: a run of benchmark_concurrent that returns has collected exactly one sample per
\* submitted request: results has num_requests entries, and they are the futures'
\* results, each once (as a multiset), whatever the completion order.
C1_OneSamplePerRequest ==
  summary.present =>
    /\ Len(results) = num_requests
    /\ Len(futures) = num_requests
    /\ \A i \in 1..Len(futures) : futures[i].st = "finished" /\ futures[i].ok
    /\ \A i \in 1..Len(futures) :
         Count(results, FutureSample(i)) = Count(FutureSamples, FutureSample(i))
    /\ \A i \in 1..Len(results) : Count(FutureSamples, results[i]) > 0

\* a two-request batch that returned with the samples collected out of submission order
C1_Witness ==
  /\ summary.present
  /\ num_requests = 2
  /\ results[1] = FutureSample(2)
  /\ results[1] # FutureSample(1)

\* C2 as stated: a failed request (network failure, non-2xx response, malformed body)
\* leaves no summary, and once the failure has reached the main thread no request is
\* started any more and none is waited for.
C2_AbortsAtOnce ==
  /\ [](bad > 0 \/ got_non2xx => ~summary.present)
  /\ [](pc \in {"unwind", "crashed"} => queue = <<>> /\ InFlight = 0)
  /\ [][(pc \in {"unwind", "crashed"}) => (sent' = sent)]_vars

\* C2 as the code has it: a request that fails (the POST raises, or the body is not
\* JSON or has no usage.completion_tokens; the status is not looked at) leaves no
\* summary.  In the warmup and the sequential phase the run is over with that failure.
\* In the concurrent phase the failure surfaces when the collector reaches the failed
\* future, and the run is over once the pool has run every submitted request to its
\* end.  A run that is over does nothing more.
C2_FaultAborts ==
  /\ [](bad > 0 => ~summary.present)
  /\ [](bad > 0 /\ NFut = 0 => pc = "crashed" /\ InFlight = 0)
  /\ [](pc = "unwind" => \E i \in yielded : ~futures[i].ok)
  /\ [](pc = "crashed" /\ bad > 0 =>
          /\ InFlight = 0
          /\ queue = <<>>
          /\ NFut = Len(futures)
          /\ \A i \in 1..Len(futures) : futures[i].st = "finished")
  /\ [][pc # "crashed"]_vars

\* a batch whose first request failed, over only after the second one was run too
C2_Witness ==
  /\ pc = "crashed"
  /\ Len(futures) = 2
  /\ ~futures[1].ok
  /\ futures[2].ok
  /\ yielded = {1}
  /\ Len(sent) = Warmups + SingleRuns + 2

\* C3 as stated: the timer of the concurrent phase starts no later than the first
\* submission, so until it has started no request of the batch is submitted, running or
\* finished; and it stops after the last request has completed.
C3_SpanCoversBatch ==
  /\ TimerNotStarted => NFut = 0
  /\ summary.present => \A i \in 1..Len(futures) : futures[i].st = "finished"

\* C4: the requests of the batch in flight are never more than args.workers: each is
\* held by one pool thread that holds nothing else, there are at most args.workers
\* threads, and every request not yet started waits in the queue or has just been got
\* from it by a thread.
C4_InFlightBounded ==
  /\ Cardinality(Busy) <= workers
  /\ Cardinality(Running) <= workers
  /\ \A k \in Busy : w[k].req \in Running
  /\ \A i \in Running : \E k \in Threads : w[k].st \in {"running", "busy"} /\ w[k].req = i
  /\ \A k \in Holding : \A j \in Holding : k # j => w[k].req # w[j].req
  /\ nthreads <= workers
  /\ Cardinality({k \in Threads : w[k].st # "none"}) <= workers
  /\ Cardinality({k \in Threads : w[k].st # "none"})
       = nthreads + (IF pc = "started" THEN 1 ELSE 0)
  /\ \A i \in 1..NFut :
       Fut(i).st = "pending" <=>
         \/ \E j \in 1..Len(queue) : queue[j] = i
         \/ \E k \in Threads : w[k].st = "got" /\ w[k].req = i
  /\ Sequential => InFlight <= 1

\* every thread of the pool inside requests.post and a request waiting in the queue
C4_Witness ==
  /\ workers >= 1
  /\ Cardinality(Busy) = workers
  /\ queue # <<>>

\* C5: the reported median is at most the reported P99.
C5_MedianAtMostP99 ==
  summary.present =>
    summary.p50_latency.num <= summary.p99_latency * summary.p50_latency.den

\* a batch of more than 100 samples, even in number, with median strictly below P99
C5_Witness ==
  /\ summary.present
  /\ Len(results) > 100
  /\ Len(results) % 2 = 0
  /\ summary.p50_latency.num < summary.p99_latency * summary.p50_latency.den

\* C6: the reported P99 is the element at index floor(0.99 N) of the latencies in
\* ascending order: with idx the integer such that 100 idx <= 99 N < 100 (idx + 1),
\* 0 <= idx < N, at most idx latencies are below the reported value and at least idx + 1
\* are not above it.  The latencies are taken in submission order (from the futures),
\* not in completion order.
C6_P99IsFloorIndex ==
  summary.present =>
    LET N == Len(results)
        idx == CHOOSE k \in 0..N : 100 * k <= 99 * N /\ 99 * N < 100 * (k + 1)
        v == summary.p99_latency
    IN /\ 0 <= idx /\ idx < N
       /\ N = Len(futures)
       /\ \E i \in 1..N : futures[i].elapsed = v
       /\ Cardinality({i \in 1..N : futures[i].elapsed < v}) <= idx
       /\ Cardinality({i \in 1..N : futures[i].elapsed <= v}) >= idx + 1

\* a batch of more than 100 samples whose P99 is not its largest latency
C6_Witness ==
  /\ summary.present
  /\ Len(results) > 100
  /\ \E i \in 1..Len(results) : results[i][1] > summary.p99_latency

\* C7: total_tokens is the sum of the token counts of the N samples (summed here over
\* the futures, in submission order), throughput_req_s is N / total_time and
\* throughput_tok_s is total_tokens / total_time, with total_time the span from the
\* timer's start to its stop.
C7_TotalsAndThroughput ==
  summary.present =>
    /\ summary.total_tokens = SumSeq([i \in 1..Len(futures) |-> futures[i].tokens])
    /\ summary.total_time = total_time
    /\ summary.total_time = now - Cost - start
    /\ summary.total_time > 0
    /\ FracEq(summary.throughput_req_s, Frac(Len(results), summary.total_time))
    /\ FracEq(summary.throughput_tok_s, Frac(summary.total_tokens, summary.total_time))

\* a summary of two samples with different token counts, collected out of submission order
C7_Witness ==
  /\ summary.present
  /\ Len(results) = 2
  /\ results[1] = FutureSample(2)
  /\ results[1][2] # results[2][2]
  /\ results[1][1] # results[1][2]

CeilDiv(a, b) == (a + b - 1) \div b

\* C8: against an endpoint that answers every call after D with T tokens, a batch of R
\* requests on W workers spans ceil(R / W) * D and totals R * T tokens; on one worker
\* the request throughput is 1 / D.
C8_FixedDelaySpan ==
  summary.present /\ endpoint.fixed =>
    /\ summary.total_time = CeilDiv(num_requests, workers) * endpoint.D
    /\ summary.total_tokens = num_requests * endpoint.T
    /\ workers = 1 => FracEq(summary.throughput_req_s, Frac(1, endpoint.D))
    /\ workers >= num_requests => summary.total_time = endpoint.D

\* five requests on five workers against a delay of 2: the span is 2, not 10
C8_Witness ==
  /\ summary.present
  /\ workers = 5
  /\ num_requests = 5
  /\ endpoint.D = 2
  /\ summary.total_time = 2

\* C9: the POSTs go out in three phases in this order: 5 warmup calls with
\* prompt_tokens 10 and max_tokens 20, 5 timed calls with the configured sizes, then the
\* batch.  In the first two phases at most one request is in flight and the pool does
\* not exist; no request of the batch is submitted before the 10 calls have returned;
\* warmup results are kept nowhere, the timed latencies only in single_latencies, and
\* the batch's results are results of its futures; a run that ends with a summary has
\* issued 10 + args.requests POSTs.
C9_ThreePhases ==
  /\ \A i \in 1..Len(sent) :
       sent[i] = IF i <= 5 THEN [prompt_tokens |-> 10, max_tokens |-> 20]
                 ELSE [prompt_tokens |-> PromptTokens, max_tokens |-> MaxTokensArg]
  /\ Sequential =>
       /\ InFlight <= 1
       /\ NFut = 0 /\ queue = <<>> /\ nthreads = 0 /\ results = <<>>
       /\ Len(sent) <= 10
       /\ Len(sent) = (IF pc \in {"warmup", "warmup_post"} THEN 0 ELSE 5)
                      + iter + InFlightMain
  /\ pc \in {"warmup", "warmup_post"} => single_latencies = <<>>
  /\ Len(single_latencies) <= 5
  /\ (NFut > 0 \/ nthreads > 0
        \/ pc \in {"pool", "submit", "adjust", "started", "timer", "collect", "shutdown",
                   "unwind"}) =>
       /\ ~Sequential
       /\ Len(sent) >= 10
       /\ Len(single_latencies) = 5
  /\ Len(sent) <= 10 + NFut
  /\ \A i \in 1..Len(results) : Count(FutureSamples, results[i]) > 0
  /\ Len(results) <= Len(futures)
  /\ summary.present => Len(sent) = 10 + num_requests

\* a run of two batch requests that ended with its summary
C9_Witness ==
  /\ summary.present
  /\ num_requests = 2
  /\ Len(sent) = 12

\* C10: no request is sent twice (the POSTs of the batch are those of its requests
\* that are in flight or finished, one each), a run is over (with or without summary)
\* only when no request it sent is still unanswered and no pool thread is at work,
\* and when every request is answered, and well, a run with at least one worker and
\* one request ends with its summary.
C10_HangsOrCompletes ==
  /\ [](Len(sent) <= 10 + num_requests)
  /\ [](NFut > 0 => Len(sent) = 10 + Cardinality(Posted))
  /\ [](Terminated =>
          InFlight = 0 /\ queue = <<>> /\ \A k \in Threads : w[k].st \in {"none", "idle"})
  /\ <>(summary.present \/ bad > 0 \/ workers < 1 \/ num_requests < 1)

\* a run on two workers that ended with its summary after two batch requests
C10_Witness ==
  /\ summary.present
  /\ workers = 2
  /\ num_requests = 2
  /\ InFlight = 0

====
